---- MODULE Spec2Model ----
(***************************************************************************)
(* Library key management (src/main.py): the key-custody state machine.   *)
(*                                                                         *)
(* State: the engine's session and cache sets, the student_entries table, *)
(* the key_status table, the daemon threads that mirror the cache into    *)
(* key_status, and the GUI's own session field and message.               *)
(***************************************************************************)
EXTENDS Integers, Sequences, FiniteSets, TLC

\* ------------------------------------------------------------- bounds
\* Badge scans (rows of student_entries) the model follows.
MaxEntries == 2
\* Mirror-write threads alive at the same time.
MaxPending == 2

\* ---------------------------------------------------------- constants
\* The configured key range; the model configures two keys where the
\* source configures a hundred.
FIRST_KEY_ID == 1
LAST_KEY_ID == 2
KeyRange == FIRST_KEY_ID..LAST_KEY_ID

\* Python None / SQL NULL in an integer or text position.
None == -1
NullStatus == "NULL"

\* ------------------------------------------------------------- inputs
\* The text of the input field, kept as what the validators read of it:
\* whether it is all digits, its length, and its integer value.
Input(d, l, v) == [isdigit |-> d, len |-> l, val |-> v]
\* "11111111" and "22222222"
StudentInputs == {Input(TRUE, 8, 11111111), Input(TRUE, 8, 22222222)}
\* "0", "1", ..., one past the range
KeyInputs == {Input(TRUE, 1, v) : v \in (FIRST_KEY_ID - 1)..(LAST_KEY_ID + 1)}
\* "abc" and the empty field
OtherInputs == {Input(FALSE, 3, 0), Input(FALSE, 0, 0)}
Inputs == StudentInputs \cup KeyInputs \cup OtherInputs

is_valid_student_id(x) == x.isdigit /\ x.len = 8
is_valid_key_id_one_past(x) == x.isdigit /\ FIRST_KEY_ID <= x.val /\ x.val <= LAST_KEY_ID + 1
is_valid_key_id(x) == x.isdigit /\ FIRST_KEY_ID <= x.val /\ x.val <= LAST_KEY_ID

\* ----------------------------------------------------------- messages
Msg(m, s, k) == [msg |-> m, student |-> s, key |-> k]
NoMessage == Msg("", None, None)
Entered(s) == Msg("entered", s, None)
NoSessionError == Msg("NoSession", None, None)
InvalidFormat == Msg("Invalid", None, None)
Returned(k) == Msg("returned", None, k)
AlreadyHolding(s, held) == Msg("AlreadyHolding", s, held)
BorrowedBy(k, s) == Msg("borrowed", s, k)

VARIABLES
    current_student,     \* engine session
    current_student_id,  \* GUI session
    available_keys,      \* cache
    borrowed_keys,       \* cache
    entries,             \* student_entries, indexed by row id
    key_status,          \* key_status table: key_id -> status
    pending,             \* per key, the statuses of the mirror-write threads started
                         \* and not yet run, in start order
    clock,               \* the second datetime.now() gave the last badge scan
    result,              \* message shown for the last input
    trip                 \* history: the cache and row count as the last borrow found
                         \* them, kept while the next input returns the same key

vars == <<current_student, current_student_id, available_keys, borrowed_keys,
          entries, key_status, pending, clock, result, trip>>

\* ------------------------------------------------------ student_entries
EntryWithKey(s, t) == [student_id |-> s, entry_time |-> t, key_id |-> FIRST_KEY_ID, key_status |-> "Returned"]

Entry(s, t) == [student_id |-> s, entry_time |-> t, key_id |-> None, key_status |-> NullStatus]

\* ORDER BY entry_time ASC in place of DESC.
LeastRecent(es, ids) == {i \in ids : \A j \in ids : es[i].entry_time <= es[j].entry_time}

\* Row ids a SELECT ... ORDER BY entry_time DESC LIMIT 1 may return among the
\* candidate rows ids: one of those with the greatest entry_time (SQL leaves
\* the order of rows with equal keys open).
MostRecent(es, ids) == {i \in ids : \A j \in ids : es[j].entry_time <= es[i].entry_time}

SetKey(es, i, k, st) == [es EXCEPT ![i].key_id = k, ![i].key_status = st]

\* The return path as it would be if it looked for the session student's row.
ReturnUpdateOwnRow(es, k) ==
    LET ids == {i \in DOMAIN es : /\ es[i].key_id = k
                                  /\ es[i].key_status = "Borrowed"
                                  /\ es[i].student_id = current_student}
    IN  IF ids = {} THEN {es}
        ELSE {SetKey(es, i, k, "Returned") : i \in MostRecent(es, ids)}

\* The tables the return path's UPDATE may leave.
ReturnUpdate(es, k) ==
    LET ids == {i \in DOMAIN es : es[i].key_id = k /\ es[i].key_status = "Borrowed"}
    IN  IF ids = {} THEN {es}
        ELSE {SetKey(es, i, k, "Returned") : i \in MostRecent(es, ids)}

ActiveBorrowedKeyReturned(es, s) ==
    LET ids == {i \in DOMAIN es : es[i].student_id = s /\ es[i].key_status = "Returned"}
    IN  IF ids = {} THEN None
        ELSE es[CHOOSE i \in ids : \A j \in ids : i <= j].key_id

ActiveBorrowedKeyUnchecked(es, s) == None

\* fetchone() of the student's Borrowed rows: the first in row order, or None.
ActiveBorrowedKey(es, s) ==
    LET ids == {i \in DOMAIN es : es[i].student_id = s /\ es[i].key_status = "Borrowed"}
    IN  IF ids = {} THEN None
        ELSE es[CHOOSE i \in ids : \A j \in ids : i <= j].key_id

\* The borrow path as it would be without student_id = ? in its subquery.
BorrowUpdateAnyStudent(es, s, k) ==
    LET ids == {i \in DOMAIN es : es[i].key_status \in {NullStatus, "Returned"}}
    IN  IF ids = {} THEN {es}
        ELSE {SetKey(es, i, k, "Borrowed") : i \in MostRecent(es, ids)}

\* The tables the borrow path's UPDATE may leave.
BorrowUpdate(es, s, k) ==
    LET ids == {i \in DOMAIN es : /\ es[i].student_id = s
                                  /\ es[i].key_status \in {NullStatus, "Returned"}}
    IN  IF ids = {} THEN {es}
        ELSE {SetKey(es, i, k, "Borrowed") : i \in MostRecent(es, ids)}

\* ------------------------------------------------------------ startup
\* _create_tables on an empty key_status table.
SeedRegistry == [k \in KeyRange |-> "Available"]

\* The key_status table before the first run: no rows.
EmptyRegistry == [k \in {} |-> "Available"]

create_tables_reseeds(reg) == SeedRegistry

\* _create_tables: the rows are inserted only when COUNT(*) is 0.
create_tables(reg) == IF Cardinality(DOMAIN reg) = 0 THEN SeedRegistry ELSE reg

\* _load_keys_from_db
LoadAvailable(reg) == {k \in DOMAIN reg : reg[k] = "Available"}
LoadBorrowed(reg) == {k \in DOMAIN reg : reg[k] = "Borrowed"}

NoTrip == [key |-> None, available |-> {}, borrowed |-> {}, n |-> 0, returned |-> FALSE]

\* No mirror-write thread is alive.
NoThreads == [k \in KeyRange |-> <<>>]

Init ==
    /\ current_student = None
    /\ current_student_id = None
    /\ key_status = create_tables(EmptyRegistry)
    /\ available_keys = LoadAvailable(key_status)
    /\ borrowed_keys = LoadBorrowed(key_status)
    /\ entries = <<>>
    /\ pending = NoThreads
    /\ clock = 0
    /\ result = NoMessage
    /\ trip = NoTrip

\* ---------------------------------------------------------- operations
\* _update_key_status_in_db: start a thread that will upsert (key_id, status).
StartMirrorWrite(p, k, st) == [p EXCEPT ![k] = Append(@, st)]

RECURSIVE SumLen(_, _)
SumLen(p, k) == IF k < FIRST_KEY_ID THEN 0 ELSE Len(p[k]) + SumLen(p, k - 1)

\* Threads alive.
Alive(p) == SumLen(p, LAST_KEY_ID)

\* What datetime.now() may give, cut to the second by adapt_datetime: the
\* second of the previous badge scan of this store, or a later one.
SecondsNow == (IF entries = <<>> THEN {} ELSE {clock}) \cup {clock + 1}

\* Python's truth test of a session field: None is false, a scanned student
\* ID (eight digits, never empty) is true.
TruthyLost(v) == TRUE
Truthy(v) == v # None

\* _process_student_id; returns its message in result.
process_student_id(s) ==
    /\ Len(entries) < MaxEntries
    /\ \E t \in SecondsNow :
        /\ clock' = t
        /\ entries' = Append(entries, Entry(s, t))
    /\ current_student' = s
    /\ result' = Entered(s)
    /\ UNCHANGED <<available_keys, borrowed_keys, key_status, pending>>

MarkAvailableKeepsBorrowed(k) ==
    /\ borrowed_keys' = borrowed_keys
    /\ available_keys' = available_keys \cup {k}

MarkAvailable(k) ==
    /\ borrowed_keys' = borrowed_keys \ {k}
    /\ available_keys' = available_keys \cup {k}

MarkBorrowedKeepsAvailable(k) ==
    /\ available_keys' = available_keys
    /\ borrowed_keys' = borrowed_keys \cup {k}

MarkBorrowed(k) ==
    /\ available_keys' = available_keys \ {k}
    /\ borrowed_keys' = borrowed_keys \cup {k}

\* _process_key_id
process_key_id(k) ==
    IF ~Truthy(current_student)
    THEN /\ result' = NoSessionError
         /\ UNCHANGED <<current_student, available_keys, borrowed_keys, entries,
                        key_status, pending, clock>>
    ELSE IF k \in borrowed_keys
    THEN /\ Alive(pending) < MaxPending
         /\ entries' \in ReturnUpdate(entries, k)
         /\ MarkAvailable(k)
         /\ pending' = StartMirrorWrite(pending, k, "Available")
         /\ result' = Returned(k)
         /\ UNCHANGED <<current_student, key_status, clock>>
    ELSE IF k \in available_keys
    THEN LET held == ActiveBorrowedKey(entries, current_student)
         IN  IF held # None /\ held # k
             THEN /\ result' = AlreadyHolding(current_student, held)
                  /\ UNCHANGED <<current_student, available_keys, borrowed_keys, entries,
                                 key_status, pending, clock>>
             ELSE /\ Alive(pending) < MaxPending
                  /\ entries' \in BorrowUpdate(entries, current_student, k)
                  /\ MarkBorrowed(k)
                  /\ pending' = StartMirrorWrite(pending, k, "Borrowed")
                  /\ result' = BorrowedBy(k, current_student)
                  /\ UNCHANGED <<current_student, key_status, clock>>
    ELSE \* the function falls off its end: None is shown
         /\ result' = NoMessage
         /\ UNCHANGED <<current_student, available_keys, borrowed_keys, entries,
                        key_status, pending, clock>>

\* LibraryKeyManagementGUI.process_input, a non-empty input
dispatch(x) ==
    IF is_valid_student_id(x)
    THEN /\ process_student_id(x.val)
         /\ current_student_id' = x.val
    ELSE IF is_valid_key_id(x)
    THEN IF Truthy(current_student_id)
         THEN /\ process_key_id(x.val)
              /\ UNCHANGED current_student_id
         ELSE /\ result' = NoSessionError
              /\ UNCHANGED <<current_student, current_student_id, available_keys,
                             borrowed_keys, entries, key_status, pending, clock>>
    ELSE /\ result' = InvalidFormat
         /\ UNCHANGED <<current_student, current_student_id, available_keys,
                        borrowed_keys, entries, key_status, pending, clock>>

\* LibraryKeyManagementGUI.process_input
process_input(x) ==
    IF x.len = 0
    THEN UNCHANGED vars
    ELSE /\ dispatch(x)
         /\ trip' = IF result'.msg = "borrowed"
                    THEN [key |-> result'.key, available |-> available_keys,
                          borrowed |-> borrowed_keys, n |-> Len(entries),
                          returned |-> FALSE]
                    ELSE IF /\ result'.msg = "returned"
                            /\ trip.key = result'.key
                            /\ ~trip.returned
                    THEN [trip EXCEPT !.returned = TRUE]
                    ELSE NoTrip

\* get_status: the dict comprehension over the Borrowed rows, a later row
\* of the same key replacing an earlier one.
BorrowedDictAnyStatus(es) ==
    LET ids == {i \in DOMAIN es : es[i].key_id # None}
    IN  [k \in {es[i].key_id : i \in ids} |->
            es[CHOOSE i \in ids : es[i].key_id = k /\
                   \A j \in ids : es[j].key_id = k => j <= i].student_id]

BorrowedDict(es) ==
    LET ids == {i \in DOMAIN es : es[i].key_status = "Borrowed"}
    IN  [k \in {es[i].key_id : i \in ids} |->
            es[CHOOSE i \in ids : es[i].key_id = k /\
                   \A j \in ids : es[j].key_id = k => j <= i].student_id]

\* get_status: one row per key of the range, in key order.
get_status ==
    LET borrowed_dict == BorrowedDict(entries)
    IN  [n \in 1..(LAST_KEY_ID + 1 - FIRST_KEY_ID) |->
            LET key_id == FIRST_KEY_ID + n - 1
            IN  IF key_id \in DOMAIN borrowed_dict
                THEN <<key_id, "Borrowed", borrowed_dict[key_id]>>
                ELSE <<key_id, "Available", None>>]

\* The upsert of one mirror-write thread: any live thread may run next.
Upsert(reg, k, st) == [reg EXCEPT ![k] = st]

RemoveAt(q, i) == [j \in 1..(Len(q) - 1) |-> IF j < i THEN q[j] ELSE q[j + 1]]

\* The i-th started of key k's live threads runs.
update(k, i) ==
    /\ i \in DOMAIN pending[k]
    /\ key_status' = Upsert(key_status, k, pending[k][i])
    /\ pending' = [pending EXCEPT ![k] = RemoveAt(@, i)]
    /\ UNCHANGED <<current_student, current_student_id, available_keys, borrowed_keys,
                   entries, clock, result, trip>>

\* The process ends (its daemon threads with it) and starts again: __init__.
Restart ==
    /\ current_student' = None
    /\ current_student_id' = None
    /\ key_status' = create_tables(key_status)
    /\ available_keys' = LoadAvailable(key_status')
    /\ borrowed_keys' = LoadBorrowed(key_status')
    /\ pending' = NoThreads
    /\ result' = NoMessage
    /\ trip' = NoTrip
    /\ UNCHANGED <<entries, clock>>

\* -------------------------------------------------------- storage failures
\* Where a synchronous write raises sqlite3.Error: at cursor.execute (the
\* statement has no effect) or at conn.commit (the statement has run in the
\* engine's connection, whose transaction stays open: the engine's later
\* queries see the row, and its next commit makes it durable).
FailurePoints == {"execute", "commit"}

\* _process_student_id when its INSERT raises: line 95 has already run.
process_student_id_fails(s, at) ==
    /\ current_student' = s
    /\ IF at = "commit"
       THEN /\ Len(entries) < MaxEntries
            /\ \E t \in SecondsNow :
                 /\ clock' = t
                 /\ entries' = Append(entries, Entry(s, t))
       ELSE UNCHANGED <<entries, clock>>
    /\ UNCHANGED <<available_keys, borrowed_keys, key_status, pending>>

\* _process_key_id when the UPDATE of the return or of the borrow path raises:
\* the lines after the commit (cache move, mirror write, return) do not run.
process_key_id_fails(k, at) ==
    /\ Truthy(current_student)
    /\ IF k \in borrowed_keys
       THEN entries' \in (IF at = "commit" THEN ReturnUpdate(entries, k) ELSE {entries})
       ELSE /\ k \in available_keys
            /\ LET held == ActiveBorrowedKey(entries, current_student)
               IN  held = None \/ held = k
            /\ entries' \in (IF at = "commit"
                              THEN BorrowUpdate(entries, current_student, k)
                              ELSE {entries})
    /\ UNCHANGED <<current_student, available_keys, borrowed_keys, key_status,
                   pending, clock>>

\* process_input when the engine call raises: the exception leaves the
\* handler, so lines 275 and 284-286 do not run.
process_input_fails(x, at) ==
    /\ x.len > 0
    /\ IF is_valid_student_id(x)
       THEN process_student_id_fails(x.val, at)
       ELSE /\ is_valid_key_id(x)
            /\ Truthy(current_student_id)
            /\ process_key_id_fails(x.val, at)
    /\ trip' = NoTrip
    /\ UNCHANGED <<current_student_id, result>>

\* The upsert of a mirror-write thread raises: the thread ends, the
\* exception goes to threading's excepthook, nothing writes the row.
update_fails(k, i) ==
    /\ i \in DOMAIN pending[k]
    /\ pending' = [pending EXCEPT ![k] = RemoveAt(@, i)]
    /\ UNCHANGED <<current_student, current_student_id, available_keys, borrowed_keys,
                   entries, key_status, clock, result, trip>>

Scan == \E x \in Inputs : process_input(x)
Mirror == \E k \in KeyRange : \E i \in 1..MaxPending : update(k, i)

Next == Scan \/ Mirror
Spec == Init /\ [][Next]_vars

ScanFails == \E x \in Inputs : \E at \in FailurePoints : process_input_fails(x, at)
MirrorFails == \E k \in KeyRange : \E i \in 1..MaxPending : update_fails(k, i)

NextFail == Scan \/ Mirror \/ ScanFails \/ MirrorFails
SpecFail == Init /\ [][NextFail]_vars

NextRestart == Scan \/ Mirror \/ Restart
SpecRestart == Init /\ [][NextRestart]_vars

\* The scanner reads digit strings only: badges and key numbers, the key
\* numbers below and above the range among them.
DigitInputs == {x \in Inputs : x.isdigit}
ScanDigits == \E x \in DigitInputs : process_input(x)

NextDigits == ScanDigits \/ Mirror \/ Restart
SpecDigits == Init /\ [][NextDigits]_vars

\* ================================================================ claims
BorrowedRows(es) == {i \in DOMAIN es : es[i].key_status = "Borrowed"}
RowsOf(es, s) == {i \in DOMAIN es : es[i].student_id = s}
ValidKeyInputs == {x \in Inputs : is_valid_key_id(x) /\ ~is_valid_student_id(x)}
Students == {x.val : x \in StudentInputs}

\* C1: in every state reachable by badge scans, key scans, mirror writes and
\* restarts, every key of the configured range is in exactly one of
\* available_keys and borrowed_keys: the two sets are disjoint and their
\* union is the range.
C1_CachePartition ==
    /\ available_keys \cap borrowed_keys = {}
    /\ available_keys \cup borrowed_keys = KeyRange

\* A key is out, the other is in after having been out and returned, and the
\* cache has been reloaded from a registry that still calls a key Borrowed.
C1_Witness ==
    /\ borrowed_keys # {}
    /\ available_keys # {}
    /\ \E i \in DOMAIN entries : entries[i].key_status = "Returned"
    /\ \E k \in KeyRange : key_status[k] = "Borrowed" /\ pending = NoThreads

\* C2: a key scan taken while the session is empty shows the no-session
\* error and leaves the cache sets, the entry records and the mirror-write
\* threads as they were.
C2_NoSessionNoChange ==
    [][\A x \in ValidKeyInputs :
        (current_student_id = None /\ process_input(x))
        => /\ result' = NoSessionError
           /\ UNCHANGED <<available_keys, borrowed_keys, entries, pending>>]_vars

\* The no-session error is on display and there is still no session, in a
\* store that already holds entry records and a borrowed key.
C2_Witness ==
    /\ result = NoSessionError
    /\ current_student_id = None
    /\ current_student = None
    /\ entries # <<>>
    /\ borrowed_keys # {}

\* C3: when the session student has a Borrowed entry record for key A, a
\* key scan of an available key B # A shows the already-holding error naming
\* A and leaves the cache sets (so the status of A and of B), the entry
\* records and the mirror-write threads as they were.
C3_AlreadyHoldingNoChange ==
    [][current_student_id # None =>
        \A i \in DOMAIN entries :
            (entries[i].student_id = current_student /\ entries[i].key_status = "Borrowed")
            => LET A == entries[i].key_id
               IN  \A x \in ValidKeyInputs :
                     (x.val # A /\ x.val \in available_keys /\ process_input(x))
                     => /\ result' = AlreadyHolding(current_student, A)
                        /\ UNCHANGED <<available_keys, borrowed_keys, entries, pending>>]_vars

\* The error naming key A is on display for the session student, who holds A,
\* while another key is available.
C3_Witness ==
    /\ result.msg = "AlreadyHolding"
    /\ result.student = current_student
    /\ result.key \in borrowed_keys
    /\ \E i \in RowsOf(entries, current_student) \cap BorrowedRows(entries) :
            entries[i].key_id = result.key
    /\ \E B \in available_keys : B # result.key

\* C4: within one run started on an empty store, each student has at most
\* one entry record whose key_status is Borrowed.
C4_OneOpenBorrowPerStudent ==
    \A s \in Students : Cardinality(RowsOf(entries, s) \cap BorrowedRows(entries)) <= 1

\* A student who scanned the badge twice holds one key, has a second record
\* that is not Borrowed, and has just been refused another key.
C4_Witness ==
    /\ result.msg = "AlreadyHolding"
    /\ Cardinality(RowsOf(entries, current_student)) >= 2
    /\ Cardinality(RowsOf(entries, current_student) \cap BorrowedRows(entries)) = 1

\* C5: mirror writes of the same key reach the key_status table in the
\* order they were issued: the thread that runs is never one started after
\* a thread of the same key that has not run yet.
C5_MirrorWritesInIssueOrder ==
    [][\A k \in KeyRange : \A i \in 1..MaxPending : update(k, i) => i = 1]_vars

\* C6: within one run, whenever no mirror write is pending, the key_status
\* table gives every key the status the cache gives it.
C6_RegistryAgreesWhenQuiet ==
    Alive(pending) = 0 =>
        \A k \in KeyRange : (key_status[k] = "Borrowed") <=> (k \in borrowed_keys)

\* C7: a borrow of key K followed at once by a key scan of K (its return)
\* leaves available_keys and borrowed_keys as the borrow found them, and the
\* number of entry records has not gone down.
C7_BorrowReturnRoundTrip ==
    trip.returned =>
        /\ available_keys = trip.available
        /\ borrowed_keys = trip.borrowed
        /\ Len(entries) >= trip.n

\* A borrow of K was followed at once by the return of K.
C7_Witness ==
    /\ trip.returned
    /\ result = Returned(trip.key)
    /\ trip.key \in trip.available

\* C8: a key scan of a key in borrowed_keys, under any session, performs a
\* return: the key moves to available_keys, the key's most recent Borrowed
\* entry record becomes Returned and no other record changes, a mirror write
\* of Available is started for the key, and the session stays as it was.
C8_BorrowedKeyScanReturns ==
    [][(current_student_id # None /\ borrowed_keys # {}) =>
       \A x \in ValidKeyInputs :
        (x.val \in borrowed_keys /\ process_input(x))
        => LET k == x.val
               ids == {i \in DOMAIN entries :
                          entries[i].key_id = k /\ entries[i].key_status = "Borrowed"}
           IN  /\ result' = Returned(k)
               /\ k \in available_keys' /\ k \notin borrowed_keys'
               /\ \A o \in KeyRange \ {k} :
                      /\ (o \in available_keys') <=> (o \in available_keys)
                      /\ (o \in borrowed_keys') <=> (o \in borrowed_keys)
               /\ pending' = [pending EXCEPT ![k] = Append(@, "Available")]
               /\ UNCHANGED <<current_student, current_student_id, key_status>>
               /\ IF ids = {} THEN entries' = entries
                  ELSE \E i \in ids :
                          /\ \A j \in ids : entries[j].entry_time <= entries[i].entry_time
                          /\ entries' = [entries EXCEPT ![i].key_status = "Returned"]]_vars

\* A key borrowed by one student has just been returned under the session of
\* another student, who never had it: the borrower's record says Returned.
C8_Witness ==
    /\ result.msg = "returned"
    /\ result.key \in available_keys
    /\ \A i \in RowsOf(entries, current_student) : entries[i].key_id # result.key
    /\ \E i \in DOMAIN entries :
            /\ entries[i].key_id = result.key
            /\ entries[i].key_status = "Returned"
            /\ entries[i].student_id # current_student
    /\ \E w \in DOMAIN pending[result.key] : pending[result.key][w] = "Available"

\* C9: within one run started on an empty store, get_status has one row per
\* key of the range, LAST_KEY_ID - FIRST_KEY_ID + 1 in all, and a key's row says
\* Borrowed exactly when the key is in borrowed_keys, Available exactly when
\* it is in available_keys.
C9_StatusListMatchesCache ==
    /\ Len(get_status) = LAST_KEY_ID - FIRST_KEY_ID + 1
    /\ \A k \in KeyRange :
        /\ Cardinality({n \in DOMAIN get_status : get_status[n][1] = k}) = 1
        /\ \A n \in DOMAIN get_status : get_status[n][1] = k =>
              /\ (get_status[n][2] = "Borrowed") <=> (k \in borrowed_keys)
              /\ (get_status[n][2] = "Available") <=> (k \in available_keys)
    /\ \A n \in DOMAIN get_status : get_status[n][1] \in KeyRange

\* One key is listed Borrowed, and another, borrowed and returned before, is
\* listed Available.
C9_Witness ==
    /\ \E n \in DOMAIN get_status : get_status[n][2] = "Borrowed"
    /\ \E n \in DOMAIN get_status :
          /\ get_status[n][2] = "Available"
          /\ \E i \in DOMAIN entries :
                entries[i].key_id = get_status[n][1] /\ entries[i].key_status = "Returned"

\* C10: a badge scan sets the session (the engine's and the GUI's) to the
\* scanned student, appends one entry record with that student and null key
\* fields, shows the confirmation, and leaves the cache sets, the records
\* already there and the key_status table as they were.
C10_BadgeScanFrame ==
    [][\A x \in StudentInputs :
        process_input(x)
        => /\ result' = Entered(x.val)
           /\ current_student' = x.val
           /\ current_student_id' = x.val
           /\ Len(entries') = Len(entries) + 1
           /\ SubSeq(entries', 1, Len(entries)) = entries
           /\ entries'[Len(entries')].student_id = x.val
           /\ entries'[Len(entries')].key_id = None
           /\ entries'[Len(entries')].key_status = NullStatus
           /\ UNCHANGED <<available_keys, borrowed_keys, key_status, pending>>]_vars

\* A badge scan has just replaced the session of another student, who holds
\* a key: the new record is the last one and has null key fields.
C10_Witness ==
    /\ result.msg = "entered"
    /\ result.student = current_student
    /\ Len(entries) >= 2
    /\ entries[Len(entries)].student_id = current_student
    /\ entries[Len(entries)].key_status = NullStatus
    /\ entries[Len(entries) - 1].student_id # current_student
    /\ entries[Len(entries) - 1].key_status = "Borrowed"

\* C11: the key fields of an entry record are written at most once after its
\* insertion (a record whose key_status is no longer null is never changed
\* again), and no record is deleted.
C11_KeyFieldsWrittenOnce ==
    [][/\ Len(entries') >= Len(entries)
       /\ \A i \in DOMAIN entries :
            entries[i].key_status # NullStatus => entries'[i] = entries[i]]_vars

\* C12: a key scan whose entry-record update raises a storage error leaves
\* available_keys, borrowed_keys, the session, the entry records and the
\* mirror-write threads as they were.
C12_FailedKeyScanChangesNothing ==
    [][\A x \in ValidKeyInputs : \A at \in FailurePoints :
        process_input_fails(x, at)
        => UNCHANGED <<available_keys, borrowed_keys, current_student,
                       current_student_id, entries, pending>>]_vars

\* C13: a badge scan whose INSERT raises a storage error leaves the engine's
\* session and the entry records as they were.
C13_FailedBadgeScanChangesNothing ==
    [][\A x \in StudentInputs : \A at \in FailurePoints :
        process_input_fails(x, at) => UNCHANGED <<current_student, entries>>]_vars

\* C14: a mirror write whose upsert raises stays scheduled (it is tried
\* again), and its failure changes neither the cache, the session, the entry
\* records nor the message.
C14_FailedMirrorWriteIsRetried ==
    [][\A k \in KeyRange : \A i \in 1..MaxPending :
        update_fails(k, i)
        => /\ pending' = pending
           /\ UNCHANGED <<available_keys, borrowed_keys, current_student,
                          current_student_id, entries, result>>]_vars

\* C15: the first startup finds no key_status row, inserts one Available row
\* per key of the range and starts with every key available; a later startup
\* finds rows, leaves the table as it is, and loads borrowed_keys with the
\* keys whose row says Borrowed, available_keys with those whose row says
\* Available.
C15_StartupSeedsOnceAndLoads ==
    /\ /\ key_status = [k \in KeyRange |-> "Available"]
       /\ available_keys = KeyRange
       /\ borrowed_keys = {}
    /\ [][Restart
          => /\ key_status' = key_status
             /\ \A k \in KeyRange :
                  /\ (k \in borrowed_keys') <=> (key_status[k] = "Borrowed")
                  /\ (k \in available_keys') <=> (key_status[k] = "Available")]_vars

\* The process has just started again on a store with entry records and a
\* key_status table that has a Borrowed and an Available row.
C15_Witness ==
    /\ result = NoMessage
    /\ current_student = None
    /\ entries # <<>>
    /\ \E k \in borrowed_keys : key_status[k] = "Borrowed"
    /\ \E k \in available_keys : key_status[k] = "Available"

\* Digit strings that are not a student ID and whose value lies outside
\* [FIRST_KEY_ID, LAST_KEY_ID].
OutOfRangeKeyInputs ==
    {x \in Inputs : /\ x.isdigit
                    /\ ~is_valid_student_id(x)
                    /\ (x.val < FIRST_KEY_ID \/ x.val > LAST_KEY_ID)}

\* C16: a digit input that is not a student ID and whose value lies outside
\* [FIRST_KEY_ID, LAST_KEY_ID] is answered with the invalid-input error, with
\* or without a session, and leaves the session, the cache sets, the entry
\* records, the key_status table and the mirror-write threads as they were.
C16_OutOfRangeKeyRejected ==
    [][\A x \in OutOfRangeKeyInputs :
        process_input(x)
        => /\ result' = InvalidFormat
           /\ UNCHANGED <<current_student, current_student_id, available_keys,
                          borrowed_keys, entries, key_status, pending>>]_vars

\* Every input of the run was a digit string, and the last one was refused
\* as invalid under an open session while a key is out and its mirror write
\* is still to run: it was a key number outside the range.
C16_Witness ==
    /\ result = InvalidFormat
    /\ current_student # None
    /\ \E k \in borrowed_keys : pending[k] # <<>>
    /\ current_student # None
    /\ borrowed_keys # {}

\* C17: when the session student's most recent null-or-Returned records share
\* their entry_time, the borrow updates the one inserted last.
C17_TieGoesToLastInserted ==
    [][\A x \in ValidKeyInputs :
        (process_input(x) /\ result'.msg = "borrowed")
        => LET ids == {i \in RowsOf(entries, current_student) :
                          entries[i].key_status \in {NullStatus, "Returned"}}
               top == MostRecent(entries, ids)
               last == CHOOSE i \in top : \A j \in top : j <= i
           IN  Cardinality(top) >= 2
               => entries' = SetKey(entries, last, x.val, "Borrowed")]_vars

\* C18: a restart that kills a mirror write not yet applied brings the cache
\* back in line with the entry records (a key is in borrowed_keys exactly
\* when a Borrowed record names it), and each student has at most one
\* Borrowed record in every state, restarts included.
C18_RestartReconciles ==
    /\ [][(Restart /\ Alive(pending) > 0)
          => \A k \in KeyRange :
                (k \in borrowed_keys') <=>
                    (\E i \in BorrowedRows(entries') : entries'[i].key_id = k)]_vars
    /\ [](\A s \in Students :
            Cardinality(RowsOf(entries, s) \cap BorrowedRows(entries)) <= 1)

RowsBorrowing(es, k) == {i \in BorrowedRows(es) : es[i].key_id = k}

\* C19: within one run started on an empty store, each key has at most one
\* Borrowed record, exactly one when it is in borrowed_keys; a record becomes
\* a key's Borrowed record only by a borrow made under the session of the
\* record's student, and get_status reports that student as the occupant.
C19_OccupantIsBorrower ==
    /\ [](\A k \in KeyRange :
            /\ Cardinality(RowsBorrowing(entries, k)) <= 1
            /\ k \in borrowed_keys => Cardinality(RowsBorrowing(entries, k)) = 1
            /\ \A i \in RowsBorrowing(entries, k) :
                 get_status[k + 1 - FIRST_KEY_ID] = <<k, "Borrowed", entries[i].student_id>>)
    /\ [][\A k \in KeyRange : \A i \in RowsBorrowing(entries', k) :
            \/ i \in RowsBorrowing(entries, k) /\ entries'[i] = entries[i]
            \/ /\ result' = BorrowedBy(k, current_student)
               /\ current_student' = current_student
               /\ entries'[i].student_id = current_student]_vars

\* A key is out, the session has passed to another student, and get_status
\* still reports the borrower.
C19_Witness ==
    \E k \in borrowed_keys : \E i \in RowsBorrowing(entries, k) :
        /\ current_student # None
        /\ entries[i].student_id # current_student
        /\ get_status[k + 1 - FIRST_KEY_ID][3] = entries[i].student_id
        /\ get_status[k + 1 - FIRST_KEY_ID][3] # current_student

StrictlyIncreasing(es) ==
    \A i \in DOMAIN es : \A j \in DOMAIN es : i < j => es[i].entry_time < es[j].entry_time

\* C20: a key scan leaves the number of entry records as it was, the number
\* changes only by a badge scan and then by one, and within one run started
\* on an empty store with strictly increasing entry times a successful
\* borrow changes one record only: the last one of the log, appended by the
\* most recent badge scan.
C20_BorrowWritesNewestRecord ==
    [][/\ Len(entries') # Len(entries)
            => /\ Len(entries') = Len(entries) + 1
               /\ \E x \in StudentInputs : process_input(x)
               /\ \A x \in ValidKeyInputs : ~process_input(x)
       /\ \A x \in ValidKeyInputs :
            (result'.msg = "borrowed" /\ StrictlyIncreasing(entries) /\ process_input(x))
            => /\ entries[Len(entries)].student_id = current_student
               /\ entries' = SetKey(entries, Len(entries), x.val, "Borrowed")]_vars

\* A student who scanned the badge twice, a second apart, has just borrowed
\* a key: the second record carries it, the first does not.
C20_Witness ==
    /\ result.msg = "borrowed"
    /\ Len(entries) >= 2
    /\ StrictlyIncreasing(entries)
    /\ \A i \in DOMAIN entries : entries[i].student_id = current_student
    /\ entries[Len(entries)].key_status = "Borrowed"
    /\ \A i \in 1..(Len(entries) - 1) : entries[i].key_status # "Borrowed"
====
